---- MODULE Spec2Model ----
(***************************************************************************)
(* Celestial: the tool-call negotiation cycle of celestial_client.py (the  *)
(* interactive client) and celestial_host.py (the Starlette HTTP host),    *)
(* over the Tool Provider of celestial_engine.py.                          *)
(*                                                                         *)
(* Text is modelled as a sequence of lexemes (records [t, c]): whitespace, *)
(* JSON punctuation, JSON string / number / literal lexemes and runs of    *)
(* other characters.  str.strip() and json.loads() are computed on these   *)
(* sequences; Python values are tagged records.                            *)
(***************************************************************************)
EXTENDS Integers, Sequences, FiniteSets, TLC

(***************************************************************************)
(* Lexemes                                                                 *)
(***************************************************************************)
W(c) == [t |-> "ws", c |-> c]       \* one whitespace character
P(c) == [t |-> "punct", c |-> c]    \* one of { } [ ] : ,
S(c) == [t |-> "str", c |-> c]      \* a JSON string literal "c"
N(c) == [t |-> "num", c |-> c]      \* a JSON number literal
L(c) == [t |-> "lit", c |-> c]      \* null, true, false
X(c) == [t |-> "chars", c |-> c]    \* a run of other characters
Q(c) == [t |-> "pystr", c |-> c]    \* repr() of a Python str: 'c'

\* Characters removed by str.strip(): space, newline, form feed, ...
StripChars == {"SP", "NL", "FF"}
\* Characters json.loads skips between tokens: space, \t, \n, \r (no form feed)
JsonWs == {"SP", "NL"}

IsStripWs(tok) == tok.t = "ws" /\ tok.c \in StripChars
IsJsonWs(tok) == tok.t = "ws" /\ tok.c \in JsonWs

(***************************************************************************)
(* str.strip(): drop leading and trailing whitespace, keep the interior.   *)
(***************************************************************************)
RECURSIVE LStrip(_)
LStrip(s) ==
    IF s = <<>> THEN <<>>
    ELSE IF IsStripWs(Head(s)) THEN LStrip(Tail(s))
    ELSE s

RECURSIVE RStrip(_)
RStrip(s) ==
    IF s = <<>> THEN <<>>
    ELSE IF IsStripWs(s[Len(s)]) THEN RStrip(SubSeq(s, 1, Len(s) - 1))
    ELSE s

StripLeftOnly(s) == LStrip(s)

Strip(s) == RStrip(LStrip(s))

(***************************************************************************)
(* Python values: None, bool, number, str (a lexeme sequence), list, dict  *)
(* (members in insertion order, keys unique).                              *)
(***************************************************************************)
PyNone == [tag |-> "null"]
PyBool(c) == [tag |-> "bool", s |-> c]
PyNum(c) == [tag |-> "num", s |-> c]
PyStr(cs) == [tag |-> "str", cs |-> cs]
PyList(items) == [tag |-> "arr", items |-> items]
PyDict(members) == [tag |-> "obj", members |-> members]

\* The characters of the Python str a JSON string literal decodes to.
StrChars(c) == IF c = "" THEN <<>> ELSE <<X(c)>>

HasKey(members, k) == \E i \in 1..Len(members) : members[i].k = k

\* dict[k] = v: an existing key keeps its position and takes the new value.
DictPut(members, k, v) ==
    IF HasKey(members, k)
    THEN [i \in 1..Len(members) |->
            IF members[i].k = k THEN [k |-> k, v |-> v] ELSE members[i]]
    ELSE Append(members, [k |-> k, v |-> v])

DictGetOrNone(members, k, default) ==
    IF HasKey(members, k)
    THEN (CHOOSE m \in {members[i] : i \in 1..Len(members)} : m.k = k).v
    ELSE PyNone

\* dict.get(k, default)
DictGet(members, k, default) ==
    IF HasKey(members, k)
    THEN (CHOOSE m \in {members[i] : i \in 1..Len(members)} : m.k = k).v
    ELSE default

(***************************************************************************)
(* json.loads(): a recursive-descent parser over the lexemes.  A result is *)
(* [ok, val, next]; ok = FALSE is json.JSONDecodeError.                    *)
(***************************************************************************)
ParseFail == [ok |-> FALSE, val |-> PyNone, next |-> 0]
ParseOk(v, n) == [ok |-> TRUE, val |-> v, next |-> n]

RECURSIVE SkipWs(_, _)
SkipWs(s, i) ==
    IF i <= Len(s) /\ IsJsonWs(s[i]) THEN SkipWs(s, i + 1) ELSE i

IsPunct(s, i, c) == i <= Len(s) /\ s[i] = P(c)

RECURSIVE ParseValue(_, _)
RECURSIVE ParseMembers(_, _, _)
RECURSIVE ParseElements(_, _, _)

\* scan_once at index i (the caller has skipped whitespace)
ParseValue(s, i) ==
    IF i > Len(s) THEN ParseFail
    ELSE IF s[i].t = "str" THEN ParseOk(PyStr(StrChars(s[i].c)), i + 1)
    ELSE IF s[i].t = "num" THEN ParseOk(PyNum(s[i].c), i + 1)
    ELSE IF s[i].t = "lit" THEN
        ParseOk(IF s[i].c = "null" THEN PyNone ELSE PyBool(s[i].c), i + 1)
    ELSE IF s[i] = P("{") THEN
        LET j == SkipWs(s, i + 1) IN
        IF IsPunct(s, j, "}") THEN ParseOk(PyDict(<<>>), j + 1)
        ELSE ParseMembers(s, j, <<>>)
    ELSE IF s[i] = P("[") THEN
        LET j == SkipWs(s, i + 1) IN
        IF IsPunct(s, j, "]") THEN ParseOk(PyList(<<>>), j + 1)
        ELSE ParseElements(s, j, <<>>)
    ELSE ParseFail

\* JSONObject: "key" : value , ... }
ParseMembers(s, i, acc) ==
    IF i > Len(s) \/ s[i].t # "str" THEN ParseFail
    ELSE
        LET c == SkipWs(s, i + 1) IN
        IF ~IsPunct(s, c, ":") THEN ParseFail
        ELSE
            LET r == ParseValue(s, SkipWs(s, c + 1)) IN
            IF ~r.ok THEN ParseFail
            ELSE
                LET acc2 == DictPut(acc, s[i].c, r.val)
                    e == SkipWs(s, r.next)
                IN  IF IsPunct(s, e, "}") THEN ParseOk(PyDict(acc2), e + 1)
                    ELSE IF IsPunct(s, e, ",")
                        THEN ParseMembers(s, SkipWs(s, e + 1), acc2)
                    ELSE ParseFail

\* JSONArray: value , ... ]
ParseElements(s, i, acc) ==
    LET r == ParseValue(s, i) IN
    IF ~r.ok THEN ParseFail
    ELSE
        LET acc2 == Append(acc, r.val)
            e == SkipWs(s, r.next)
        IN  IF IsPunct(s, e, "]") THEN ParseOk(PyList(acc2), e + 1)
            ELSE IF IsPunct(s, e, ",")
                THEN ParseElements(s, SkipWs(s, e + 1), acc2)
            ELSE ParseFail

\* JSONDecoder.decode: skip leading whitespace, one value, skip trailing
\* whitespace, anything left is "Extra data".
JsonLoads(s) ==
    LET r == ParseValue(s, SkipWs(s, 1)) IN
    IF r.ok /\ SkipWs(s, r.next) = Len(s) + 1 THEN r ELSE ParseFail

IsValidJson(s) == JsonLoads(s).ok

(***************************************************************************)
(* Rendering Python values as text: repr(v) and str(v) (the f-string {v}). *)
(***************************************************************************)
RECURSIVE PyRepr(_)
RECURSIVE ReprItems(_)
RECURSIVE ReprMembers(_)

ReprItems(items) ==
    IF items = <<>> THEN <<>>
    ELSE PyRepr(Head(items))
         \o (IF Len(items) > 1 THEN <<P(","), W("SP")>> ELSE <<>>)
         \o ReprItems(Tail(items))

ReprMembers(members) ==
    IF members = <<>> THEN <<>>
    ELSE <<Q(Head(members).k), P(":"), W("SP")>> \o PyRepr(Head(members).v)
         \o (IF Len(members) > 1 THEN <<P(","), W("SP")>> ELSE <<>>)
         \o ReprMembers(Tail(members))

PyRepr(v) ==
    CASE v.tag = "null" -> <<X("None")>>
      [] v.tag = "bool" -> <<X(IF v.s = "true" THEN "True" ELSE "False")>>
      [] v.tag = "num" -> <<N(v.s)>>
      [] v.tag = "str" ->
            IF v.cs = <<>> THEN <<Q("")>>
            ELSE [i \in 1..Len(v.cs) |-> Q(v.cs[i].c)]
      [] v.tag = "arr" -> <<P("[")>> \o ReprItems(v.items) \o <<P("]")>>
      [] v.tag = "obj" -> <<P("{")>> \o ReprMembers(v.members) \o <<P("}")>>

\* str(v): a str is itself, anything else is its repr
PyToStr(v) == IF v.tag = "str" THEN v.cs ELSE PyRepr(v)

\* "\n".join(chunks) for chunks that are all str
RECURSIVE JoinNewline(_)
JoinNewline(chunks) ==
    IF chunks = <<>> THEN <<>>
    ELSE IF Len(chunks) = 1 THEN Head(chunks).cs
    ELSE Head(chunks).cs \o <<W("NL")>> \o JoinNewline(Tail(chunks))

AllStr(chunks) == \A i \in 1..Len(chunks) : chunks[i].tag = "str"

(***************************************************************************)
(* The fixed message texts of process_query                                *)
(***************************************************************************)
FallbackPrefix == <<X("Model did not return valid JSON:"), W("NL")>>

\* line 123 / 127: "Model did not return valid JSON:\n" + assistant_message
FallbackAnswer(assistant_message) == FallbackPrefix \o assistant_message

ToolLine(tool_name, shown) ==
    <<X("[Tool '")>> \o PyToStr(tool_name)
        \o <<X("' executed with result: ")>> \o shown \o <<X("]")>>

ErrorLine(tool_name, shown) ==
    <<X("[Error executing tool '")>> \o PyToStr(tool_name)
        \o <<X("': ")>> \o shown \o <<X("]")>>

UnrecognizedLine(item) == <<X("Unrecognized item: ")>> \o PyRepr(item)

(***************************************************************************)
(* The Tool Provider (celestial_engine.py)                                 *)
(***************************************************************************)
\* the tools registered with @mcp.tool()
Catalog == {"list_celestial_bodies", "list_phenomena", "get_phenomena",
            "moon_visibility"}

\* the parameters each tool function requires
RequiredArgs(name) ==
    CASE name = "list_celestial_bodies" -> {}
      [] name = "list_phenomena" -> {"body"}
      [] name = "get_phenomena" -> {"args"}
      [] name = "moon_visibility" -> {"args"}

\* the answers of the remote celestial-data service
HttpStatuses == {200, 500}

\* resp.raise_for_status(): anything but 2xx raises
IsSuccess(status) == status >= 200 /\ status <= 299

\* celestial_request: the JSON body on 2xx, an exception otherwise
celestial_request(status) ==
    IF IsSuccess(status)
    THEN [ok |-> TRUE, text |-> "data"]
    ELSE [ok |-> FALSE, text |-> "HTTPStatusError"]

IsToolName(tool_name) ==
    /\ tool_name.tag = "str"
    /\ Len(tool_name.cs) = 1
    /\ tool_name.cs[1].c \in Catalog

\* What the provider does with one tools/call request: an unknown name and
\* an input that does not validate are rejected before the tool runs.
ProviderRun(tool_name, tool_input, status) ==
    IF ~IsToolName(tool_name) THEN [ok |-> FALSE, text |-> "Unknown tool"]
    ELSE IF tool_input.tag # "obj"
            \/ \E a \in RequiredArgs(tool_name.cs[1].c) :
                   ~HasKey(tool_input.members, a)
        THEN [ok |-> FALSE, text |-> "validation error"]
    ELSE celestial_request(status)

(***************************************************************************)
(* The Tool Channel: session.call_tool.  A provider-side failure reaches   *)
(* the caller either in the returned result (its error flag set) or as an  *)
(* exception; a transport failure is an exception.  `how` is the channel's *)
(* choice.  The reply is [raised, shown]: shown is str(tool_result) or     *)
(* str(e), and failed tells whether the tool call failed.                  *)
(***************************************************************************)
ChannelHow == {"result", "exception"}

call_tool(tool_name, tool_input, status, how) ==
    LET run == ProviderRun(tool_name, tool_input, status) IN
    IF how = "exception"
    THEN [raised |-> TRUE, failed |-> TRUE,
          shown |-> <<X(IF run.ok THEN "transport closed" ELSE run.text)>>]
    ELSE [raised |-> FALSE, failed |-> ~run.ok,
          shown |-> <<X("isError="), X(IF run.ok THEN "False" ELSE "True"),
                      W("SP"), X(run.text)>>]

(***************************************************************************)
(* The content loop of process_query, from one suspension point to the     *)
(* next: it runs until a tool_use item awaits call_tool ("call"), an       *)
(* exception escapes ("raise") or the items are exhausted ("done").        *)
(***************************************************************************)
IsStrOf(v, c) == v.tag = "str" /\ v.cs = <<X(c)>>

ItemTypeDefaultText(item) == DictGet(item.members, "type", PyStr(<<X("text")>>))

ItemType(item) == DictGet(item.members, "type", PyNone)
ItemName(item) == DictGet(item.members, "name", PyNone)
ItemInput(item) == DictGet(item.members, "input", PyDict(<<>>))
ItemText(item) == DictGet(item.members, "text", PyStr(<<>>))

\* `for item in <value>`: a list yields its items, a str its characters, a
\* dict its keys; anything else is a TypeError.
IterItems(v) ==
    CASE v.tag = "arr" -> [ok |-> TRUE, items |-> v.items]
      [] v.tag = "str" ->
            [ok |-> TRUE, items |-> [i \in 1..Len(v.cs) |-> PyStr(<<v.cs[i]>>)]]
      [] v.tag = "obj" ->
            [ok |-> TRUE,
             items |-> [i \in 1..Len(v.members) |->
                            PyStr(<<X(v.members[i].k)>>)]]
      [] OTHER -> [ok |-> FALSE, items |-> <<>>]

RECURSIVE RunItemsSkipUnrecognized(_, _, _)
RunItemsSkipUnrecognized(items, i, chunks) ==
    IF i > Len(items) THEN [status |-> "done", idx |-> i, chunks |-> chunks]
    ELSE IF items[i].tag # "obj"
        THEN [status |-> "raise", idx |-> i, chunks |-> chunks]
    ELSE IF IsStrOf(ItemType(items[i]), "text")
        THEN RunItemsSkipUnrecognized(items, i + 1,
                                      Append(chunks, ItemText(items[i])))
    ELSE IF IsStrOf(ItemType(items[i]), "tool_use")
        THEN [status |-> "call", idx |-> i, chunks |-> chunks]
    ELSE RunItemsSkipUnrecognized(items, i + 1, chunks)

RECURSIVE RunItems(_, _, _)
RunItems(items, i, chunks) ==
    IF i > Len(items) THEN [status |-> "done", idx |-> i, chunks |-> chunks]
    ELSE IF items[i].tag # "obj"            \* item.get: AttributeError
        THEN [status |-> "raise", idx |-> i, chunks |-> chunks]
    ELSE IF IsStrOf(ItemType(items[i]), "text")
        THEN RunItems(items, i + 1, Append(chunks, ItemText(items[i])))
    ELSE IF IsStrOf(ItemType(items[i]), "tool_use")
        THEN [status |-> "call", idx |-> i, chunks |-> chunks]
    ELSE RunItems(items, i + 1,
                  Append(chunks, PyStr(UnrecognizedLine(items[i]))))

(***************************************************************************)
(* Inputs: what the Completion Oracle may answer, the queries, the lines   *)
(* typed at the interactive prompt.                                        *)
(***************************************************************************)
MaxReq == 2
Reqs == 1..MaxReq

RECURSIVE JoinComma(_)
JoinComma(parts) ==
    IF parts = <<>> THEN <<>>
    ELSE IF Len(parts) = 1 THEN Head(parts)
    ELSE Head(parts) \o <<P(",")>> \o JoinComma(Tail(parts))

KV(k, v) == <<S(k), P(":")>> \o v
ObjT(kvs) == <<P("{")>> \o JoinComma(kvs) \o <<P("}")>>
ArrT(vs) == <<P("[")>> \o JoinComma(vs) \o <<P("]")>>
Envelope(its) == ObjT(<<KV("content", ArrT(its))>>)
TextItem(c) == ObjT(<<KV("type", <<S("text")>>), KV("text", <<S(c)>>)>>)
ToolItem(n) ==
    ObjT(<<KV("type", <<S("tool_use")>>), KV("name", <<S(n)>>),
           KV("input", ObjT(<<>>))>>)

NotJsonTexts ==
    { <<X("not"), W("SP"), X("json")>>,
      <<W("SP"), X("not"), W("SP"), X("json"), W("NL")>>,
      <<P("{"), S("content"), P(":"), P("[")>>,
      ObjT(<<>>) \o <<W("SP"), X("done")>> }

EnvelopeTexts ==
    { Envelope(<<TextItem("hello")>>),
      <<W("NL")>> \o Envelope(<<TextItem("A"), ToolItem("list_celestial_bodies")>>)
          \o <<W("SP")>>,
      Envelope(<<ToolItem("foo"), TextItem("B")>>),
      Envelope(<<ToolItem("list_celestial_bodies"), TextItem(""),
                 ToolItem("list_phenomena")>>),
      Envelope(<<ObjT(<<KV("type", <<S("image")>>)>>),
                 ObjT(<<KV("text", <<S("x")>>)>>),
                 ObjT(<<KV("type", <<S("text")>>)>>)>>),
      Envelope(<<ObjT(<<KV("type", <<S("tool_use")>>)>>)>>),
      Envelope(<<>>),
      ObjT(<<>>),
      ObjT(<<KV("role", <<S("assistant")>>)>>),
      <<W("FF")>> \o ObjT(<<KV("other", <<N("1")>>)>>) }

MalformedTexts ==
    { ArrT(<<<<N("1")>>>>),
      <<L("null")>>,
      <<S("hello")>>,
      <<N("1")>>,
      ObjT(<<KV("content", <<N("1")>>)>>),
      ObjT(<<KV("content", <<L("null")>>)>>),
      ObjT(<<KV("content", <<S("ab")>>)>>),
      ObjT(<<KV("content", ObjT(<<KV("a", <<N("1")>>)>>))>>),
      Envelope(<<TextItem("A"), <<N("1")>>>>),
      Envelope(<<ToolItem("list_celestial_bodies"), <<S("x")>>>>),
      Envelope(<<ObjT(<<KV("type", <<S("text")>>), KV("text", <<N("1")>>)>>)>>) }

OracleTexts == NotJsonTexts \cup EnvelopeTexts \cup MalformedTexts

\* a reply of the Completion Oracle: a text, or the call raises
OracleReplies ==
    {[ok |-> TRUE, text |-> t] : t \in OracleTexts}
        \cup {[ok |-> FALSE, text |-> <<>>]}

\* the texts a cycle after the first may be answered with: one per path
CoreTexts ==
    { <<W("SP"), X("not"), W("SP"), X("json"), W("NL")>>,
      <<W("NL")>> \o Envelope(<<TextItem("A"), ToolItem("list_celestial_bodies")>>)
          \o <<W("SP")>>,
      ArrT(<<<<N("1")>>>>) }

\* the replies explored for cycle r: every text for the first cycle
RepliesFor(r) ==
    {o \in OracleReplies : r = 1 \/ ~o.ok \/ o.text \in CoreTexts}

\* the replies of the oracle to the Presentation Pass call
PrettyReplies ==
    { [ok |-> TRUE, text |-> <<W("SP"), X("table"), W("NL")>>],
      [ok |-> FALSE, text |-> <<>>] }

Queries == {<<X("moonrise")>>, <<X("sunset")>>}

InputLines ==
    { <<X("quit")>>, <<W("SP"), X("Quit"), W("NL")>>,
      <<X("moonrise")>>, <<W("SP"), X("sunset")>> }

\* str.lower() of the words typed
LowerWord(c) ==
    CASE c \in {"Quit", "QUIT"} -> "quit"
      [] c = "True" -> "true"
      [] c = "False" -> "false"
      [] OTHER -> c
Lower(s) ==
    [i \in 1..Len(s) |-> IF s[i].t = "chars" THEN X(LowerWord(s[i].c)) ELSE s[i]]

(***************************************************************************)
(* get_phenomena (celestial_engine.py): the request it builds from the     *)
(* validated PhenomenaArgs.  An argument that was not supplied is None.    *)
(***************************************************************************)
RequiredFields == {"latitude", "longitude", "startDate", "endDate"}
OptionalFields == {"timezone", "useBst", "depression", "altitude"}
ArgFields == {"body", "phenomena"} \cup RequiredFields \cup OptionalFields

\* the PhenomenaArgs the tool is called with
PhenomenaInputs ==
    { [body |-> PyStr(<<X(b)>>), phenomena |-> PyStr(<<X("rise-and-set")>>),
       latitude |-> PyStr(<<X("51")>>), longitude |-> PyStr(<<X("0")>>),
       startDate |-> PyStr(<<X("2024-01-01")>>),
       endDate |-> PyStr(<<X("2024-01-05")>>),
       timezone |-> tz, useBst |-> bst, depression |-> dep, altitude |-> alt] :
        b \in {"Sun", "Moon"},
        tz \in {PyNone, PyStr(<<X("2")>>)},
        bst \in {PyNone, PyBool("true"), PyBool("false")},
        dep \in {PyNone, PyNum("0"), PyNum("6")},
        alt \in {PyNone, PyNum("0"), PyNum("100")} }

IsTruthy(v) ==
    v \notin {PyNone, PyBool("false"), PyNum("0"), PyStr(<<>>)}

\* `v is not None`
IsNotNone(v) == v # PyNone

\* if cond: params[k] = v
PutIf(cond, members, k, v) == IF cond THEN DictPut(members, k, v) ELSE members

\* get_phenomena up to `await celestial_request(endpoint, params)`
get_phenomena(a) ==
    LET base == << [k |-> "latitude", v |-> a.latitude],
                   [k |-> "longitude", v |-> a.longitude],
                   [k |-> "startDate", v |-> a.startDate],
                   [k |-> "endDate", v |-> a.endDate] >>
        p1 == PutIf(IsNotNone(a.timezone), base, "timezone", a.timezone)
        p2 == PutIf(IsNotNone(a.useBst), p1, "useBst",
                    PyStr(Lower(PyToStr(a.useBst))))
        p3 == PutIf(IsNotNone(a.depression), p2, "depression", a.depression)
        p4 == PutIf(IsNotNone(a.altitude), p3, "altitude", a.altitude)
    IN  [state |-> "sent",
         endpoint |-> <<X("/celestial-bodies/")>> \o a.body.cs
                        \o <<X("/phenomena/")>> \o a.phenomena.cs,
         members |-> p4]

(***************************************************************************)
(* State                                                                   *)
(***************************************************************************)
VARIABLES
    program,            \* "client" (celestial_client.py), "host" (celestial_host.py)
                        \* or "engine" (celestial_engine.py)
    server_script_path, \* the path connect_to_server is called with
    mainPc,             \* where main() / the application lifecycle stands
    exitKind,           \* "none", "ok" or "error": how the process ended
    session,            \* self.session: "None" or "set"
    exit_stack,         \* self.exit_stack: the contexts entered, oldest first
    initCount,          \* session.initialize() calls issued
    initDone,           \* the initialize handshake has completed
    earlyOps,           \* list_tools / call_tool issued before initialize completed
    listed,             \* list_tools operations issued on the session so far
    typed,              \* chat_loop: the line input() returned last
    pc,                 \* per cycle: idle, list_tools, call_tool, done
    query,              \* per cycle: the query text
    fetch,              \* per cycle: the list_tools operations it issued
    system_prompt,      \* per cycle: [query, tools, listing] embedded in the
                        \* prompt; listing is the list_tools operation whose
                        \* response the tools were taken from
    oracle,             \* per cycle: the oracle's reply to the negotiation call
    content,            \* per cycle: the items iterated (content_list)
    idx,                \* per cycle: the item being processed
    final_text_chunks,  \* per cycle: the output sequence
    calls,              \* per cycle: the call_tool operations issued, in order
    ret,                \* per cycle: what process_query returned or raised
    pretty,             \* per request: the prettify_output call
    resp,               \* per request: the HTTP response
    printed,            \* per cycle: what chat_loop printed for it
    args,               \* engine: the validated PhenomenaArgs of a call
    params              \* engine: the query parameters of the outgoing request

fixedVars == <<server_script_path, args, params>>
mainVars == <<program, server_script_path, mainPc, exitKind, session, exit_stack,
              initCount, initDone, typed, args, params>>
cycleVars == <<pc, query, fetch, system_prompt, oracle, content, idx,
               final_text_chunks, calls, ret, pretty, resp, printed>>
vars == <<program, server_script_path, mainPc, exitKind, session, exit_stack,
          initCount, initDone, earlyOps, listed, typed, pc, query, fetch,
          system_prompt, oracle, content, idx, final_text_chunks, calls, ret,
          pretty, resp, printed, args, params>>

NoRet == [kind |-> "none", val |-> <<>>]
Value(v) == [kind |-> "value", val |-> v]
Raised(e) == [kind |-> "exc", val |-> <<X(e)>>]

NoOracle == [state |-> "none", text |-> <<>>]
NoPretty ==
    [state |-> "none", prompt |-> [system |-> <<>>, user |-> <<>>], text |-> <<>>]
NoResp == [kind |-> "none", result |-> <<>>]
NoPrint == [kind |-> "none", text |-> <<>>]
NoPrompt == [query |-> <<>>, tools |-> {}, listing |-> 0]

\* main() / startup(): server_script_path = "celestial_engine.py"
EngineScript ==
    <<"c", "e", "l", "e", "s", "t", "i", "a", "l", "_",
      "e", "n", "g", "i", "n", "e", ".", "p", "y">>

\* no PhenomenaArgs, no request built
NoArgs == [f \in ArgFields |-> PyNone]
NoParams == [state |-> "none", endpoint |-> <<>>, members |-> <<>>]

\* MCPClient.__init__: nothing connected, no cycle begun
Unconnected ==
    /\ mainPc = "start"
    /\ exitKind = "none"
    /\ session = "None"
    /\ exit_stack = <<>>
    /\ initCount = 0
    /\ initDone = FALSE
    /\ earlyOps = 0
    /\ listed = 0
    /\ typed = <<>>
    /\ pc = [r \in Reqs |-> "idle"]
    /\ query = [r \in Reqs |-> <<>>]
    /\ fetch = [r \in Reqs |-> <<>>]
    /\ system_prompt = [r \in Reqs |-> NoPrompt]
    /\ oracle = [r \in Reqs |-> NoOracle]
    /\ content = [r \in Reqs |-> <<>>]
    /\ idx = [r \in Reqs |-> 0]
    /\ final_text_chunks = [r \in Reqs |-> <<>>]
    /\ calls = [r \in Reqs |-> <<>>]
    /\ ret = [r \in Reqs |-> NoRet]
    /\ pretty = [r \in Reqs |-> NoPretty]
    /\ resp = [r \in Reqs |-> NoResp]
    /\ printed = [r \in Reqs |-> NoPrint]
    /\ params = NoParams

\* MCPClient.__init__ and the module-level state before main() / startup()
Init ==
    /\ program \in {"client", "host"}
    /\ server_script_path = EngineScript
    /\ args = NoArgs
    /\ Unconnected

(***************************************************************************)
(* connect_to_server, run by main() (client) or by the startup hook (host) *)
(***************************************************************************)
\* An exception leaves connect_to_server.  main() runs its finally block;
\* the host's startup() has no handler and the failed startup ends the
\* application without running the on_shutdown hooks.
StartupFailsTo == IF program = "client" THEN "cleanup" ELSE "exited"

EndsWithAnything(s, suffix) == TRUE

\* str.endswith(suffix)
EndsWith(s, suffix) ==
    /\ Len(s) >= Len(suffix)
    /\ SubSeq(s, Len(s) - Len(suffix) + 1, Len(s)) = suffix

\* connect_to_server up to its first await: a path that does not end in
\* ".py" raises ValueError; else the provider is spawned by
\* exit_stack.enter_async_context(stdio_client(server_params))
EnterTransport ==
    /\ mainPc = "start"
    /\ IF ~EndsWith(server_script_path, <<".", "p", "y">>)
       THEN /\ exit_stack' = exit_stack
            /\ mainPc' = StartupFailsTo
            /\ exitKind' = "error"
       ELSE \E ok \in BOOLEAN :
            IF ok
            THEN /\ exit_stack' = Append(exit_stack, "transport")
                 /\ mainPc' = "enter_session"
                 /\ exitKind' = exitKind
            ELSE /\ exit_stack' = exit_stack
                 /\ mainPc' = StartupFailsTo
                 /\ exitKind' = "error"
    /\ UNCHANGED <<program, session, initCount, initDone, earlyOps, listed, typed>>
    /\ UNCHANGED fixedVars
    /\ UNCHANGED cycleVars

\* self.session = exit_stack.enter_async_context(ClientSession(...))
EnterSession ==
    /\ mainPc = "enter_session"
    /\ \E ok \in BOOLEAN :
        IF ok
        THEN /\ exit_stack' = Append(exit_stack, "session")
             /\ session' = "set"
             /\ mainPc' = "initialize"
             /\ exitKind' = exitKind
        ELSE /\ exit_stack' = exit_stack
             /\ session' = session
             /\ mainPc' = StartupFailsTo
             /\ exitKind' = "error"
    /\ UNCHANGED <<program, initCount, initDone, earlyOps, listed, typed>>
    /\ UNCHANGED fixedVars
    /\ UNCHANGED cycleVars

\* await self.session.initialize()
Initialize ==
    /\ mainPc = "initialize"
    /\ initCount' = initCount + 1
    /\ \E ok \in BOOLEAN :
        IF ok
        THEN /\ initDone' = TRUE
             /\ mainPc' = "first_list"
             /\ exitKind' = exitKind
        ELSE /\ initDone' = initDone
             /\ mainPc' = StartupFailsTo
             /\ exitKind' = "error"
    /\ UNCHANGED <<program, session, exit_stack, earlyOps, listed, typed>>
    /\ UNCHANGED fixedVars
    /\ UNCHANGED cycleVars

\* response = await self.session.list_tools(); print the tool names
ConnectListTools ==
    /\ mainPc = "first_list"
    /\ earlyOps' = IF initDone THEN earlyOps ELSE earlyOps + 1
    /\ listed' = listed + 1
    /\ \E ok \in BOOLEAN :
        IF ok
        THEN /\ mainPc' = "running"
             /\ exitKind' = exitKind
        ELSE /\ mainPc' = StartupFailsTo
             /\ exitKind' = "error"
    /\ UNCHANGED <<program, session, exit_stack, initCount, initDone, typed>>
    /\ UNCHANGED fixedVars
    /\ UNCHANGED cycleVars

(***************************************************************************)
(* process_query                                                           *)
(***************************************************************************)
RECURSIVE ChunksBefore(_)
ChunksBefore(r) ==
    IF r = 0 THEN <<>>
    ELSE ChunksBefore(r - 1)
            \o (IF pc[r] = "done" THEN final_text_chunks[r] ELSE <<>>)

JoinResultShared(chunks) ==
    LET all == ChunksBefore(MaxReq) \o chunks IN
    IF AllStr(all) THEN Value(JoinNewline(all)) ELSE Raised("TypeError")

\* "\n".join(final_text_chunks): a chunk that is no str is a TypeError
JoinResult(chunks) ==
    IF AllStr(chunks) THEN Value(JoinNewline(chunks)) ELSE Raised("TypeError")

\* steps 6 and 7 from item i on, up to the next await
LoopOutcome(items, i, chunks) ==
    LET run == RunItems(items, i, chunks) IN
    [status |-> run.status, idx |-> run.idx, chunks |-> run.chunks,
     ret |-> CASE run.status = "call" -> NoRet
               [] run.status = "raise" -> Raised("AttributeError")
               [] run.status = "done" -> JoinResult(run.chunks)]

Ended(result) ==
    [status |-> "end", idx |-> 0, chunks |-> <<>>, ret |-> result]

OracleFailedSwallowed == Ended(Value(<<>>))

\* openai.chat.completions.create raises: nothing catches it
OracleFailed == Ended(Raised("OracleUnavailable"))

AfterCallAbort(items, i, chunks, tool_name, reply) ==
    IF reply.raised
    THEN [status |-> "raise", idx |-> i, chunks |-> chunks,
          ret |-> Raised("ToolError")]
    ELSE LoopOutcome(items, i + 1,
                     Append(chunks, PyStr(ToolLine(tool_name, reply.shown))))

AfterCallRetry(items, i, chunks, tool_name, reply) ==
    IF reply.raised
    THEN LoopOutcome(items, i, chunks)
    ELSE LoopOutcome(items, i + 1,
                     Append(chunks, PyStr(ToolLine(tool_name, reply.shown))))

\* the try / except around call_tool for item i: the line of the call is
\* appended, success or failure, and the loop goes on with item i + 1
AfterCall(items, i, chunks, tool_name, reply) ==
    LoopOutcome(items, i + 1,
                Append(chunks,
                       PyStr(IF reply.raised
                             THEN ErrorLine(tool_name, reply.shown)
                             ELSE ToolLine(tool_name, reply.shown))))

\* steps 4 to 6: strip the reply, parse it, take its content
Interpret(text) ==
    LET assistant_message == Strip(text)
        parsed == JsonLoads(assistant_message)
    IN  IF ~parsed.ok
        THEN [content |-> <<>>,
              out |-> Ended(Value(FallbackAnswer(assistant_message)))]
        ELSE IF parsed.val.tag # "obj"      \* parsed.get: AttributeError
        THEN [content |-> <<>>, out |-> Ended(Raised("AttributeError"))]
        ELSE LET it == IterItems(DictGet(parsed.val.members, "content",
                                         PyList(<<>>)))
             IN  IF ~it.ok
                 THEN [content |-> <<>>, out |-> Ended(Raised("TypeError"))]
                 ELSE [content |-> it.items,
                       out |-> LoopOutcome(it.items, 1, <<>>)]

\* Interpret, computed once per text
Interpreted == [t \in OracleTexts |-> Interpret(t)]

prettify_output_unstripped(text, reply) ==
    IF reply.ok THEN Value(reply.text) ELSE Raised("OracleUnavailable")

\* prettify_output(query): the second oracle call; its text is stripped
prettify_output(text, reply) ==
    IF reply.ok THEN Value(Strip(reply.text)) ELSE Raised("OracleUnavailable")

\* handle_query after process_query: an exception of either call escapes
\* the handler, else JSONResponse({"result": nice_output})
HandlerResponseSwallow(response, nice) ==
    IF response.kind = "exc" THEN [kind |-> "error", result |-> response.val]
    ELSE IF nice.kind = "exc" THEN [kind |-> "ok", result |-> response.val]
    ELSE [kind |-> "ok", result |-> nice.val]

HandlerResponse(response, nice) ==
    IF response.kind = "exc" THEN [kind |-> "error", result |-> response.val]
    ELSE IF nice.kind = "exc" THEN [kind |-> "error", result |-> nice.val]
    ELSE [kind |-> "ok", result |-> nice.val]

\* prettify_output(query): the messages of the second oracle call, both
\* built from its only argument (here `text`)
PresentationPrompt(text) ==
    [system |->
        Strip(<<W("NL"),
                X("You are a helpful assistant that will receive JSON and format the output into a nice human readable string or table based on the json received."),
                W("NL"), X("The user has asked: ")>>
              \o text
              \o <<W("NL"),
                   X("Return the output as a nice string or table result."),
                   W("NL"), W("SP")>>),
     user |-> text]

\* chat_loop: print("\nResponse:\n" + response), or the except branch's
\* print(f"\nError processing query: {e}")
ChatPrint(result) ==
    IF result.kind = "value"
    THEN [kind |-> "answer",
          text |-> <<W("NL"), X("Response:"), W("NL")>> \o result.val]
    ELSE [kind |-> "error",
          text |-> <<W("NL"), X("Error processing query: ")>> \o result.val]

\* the replies that matter once process_query has produced `result`
PrettyChoices(result) ==
    IF program = "host" /\ result.kind = "value"
    THEN PrettyReplies ELSE {[ok |-> FALSE, text |-> <<>>]}

\* process_query returns or raises; in the host handle_query goes on to
\* the Presentation Pass and the response, in the client chat_loop prints.
Finish(r, result, preply) ==
    /\ pc' = [pc EXCEPT ![r] = "done"]
    /\ ret' = [ret EXCEPT ![r] = result]
    /\ printed' = [printed EXCEPT ![r] =
            IF program = "client" THEN ChatPrint(result) ELSE @]
    /\ IF program = "host" /\ result.kind = "value"
       THEN /\ pretty' = [pretty EXCEPT ![r] =
                    [state |-> IF preply.ok THEN "ok" ELSE "failed",
                     prompt |-> PresentationPrompt(result.val),
                     text |-> preply.text]]
            /\ resp' = [resp EXCEPT ![r] =
                    HandlerResponse(result, prettify_output(result.val, preply))]
       ELSE IF program = "host"
       THEN /\ pretty' = pretty
            /\ resp' = [resp EXCEPT ![r] = HandlerResponse(result, NoRet)]
       ELSE UNCHANGED <<pretty, resp>>

\* A channel operation is issued on the session.
IssueOp == earlyOps' = IF initDone THEN earlyOps ELSE earlyOps + 1

\* The cycle moves to the outcome `out`: suspended in call_tool, or ended.
Apply(r, out, callsNow, preply) ==
    /\ idx' = [idx EXCEPT ![r] = out.idx]
    /\ final_text_chunks' = [final_text_chunks EXCEPT ![r] = out.chunks]
    /\ IF out.status = "call"
       THEN /\ pc' = [pc EXCEPT ![r] = "call_tool"]
            /\ calls' = [calls EXCEPT ![r] =
                    Append(callsNow, [item |-> out.idx, state |-> "pending",
                                      failed |-> FALSE, shown |-> <<>>])]
            /\ IssueOp
            /\ UNCHANGED <<ret, pretty, resp, printed>>
       ELSE /\ calls' = [calls EXCEPT ![r] = callsNow]
            /\ earlyOps' = earlyOps
            /\ Finish(r, out.ret, preply)

\* process_query(q) up to its first await: session.list_tools() is issued
StartCycle(r, q) ==
    /\ pc[r] = "idle"
    /\ query' = [query EXCEPT ![r] = q]
    /\ IF session = "None"                  \* None.list_tools: AttributeError
       THEN /\ UNCHANGED <<earlyOps, listed, fetch>>
            /\ Finish(r, Raised("AttributeError"), [ok |-> FALSE, text |-> <<>>])
       ELSE /\ pc' = [pc EXCEPT ![r] = "list_tools"]
            /\ IssueOp
            /\ listed' = listed + 1
            /\ fetch' = [fetch EXCEPT ![r] = Append(@, listed + 1)]
            /\ UNCHANGED <<ret, pretty, resp, printed>>
    /\ UNCHANGED <<system_prompt, oracle, content, idx, final_text_chunks, calls>>

\* list_tools fails: the exception leaves process_query
ListToolsFails(r) ==
    /\ pc[r] = "list_tools"
    /\ Finish(r, Raised("ChannelError"), [ok |-> FALSE, text |-> <<>>])
    /\ UNCHANGED mainVars
    /\ UNCHANGED <<earlyOps, listed, query, fetch, system_prompt, oracle,
                   content, idx, final_text_chunks, calls>>

ConnectListing(r) == 1

\* response = await self.session.list_tools(): the response the cycle's
\* available_tools are built from is that of the operation just awaited
PromptListing(r) == fetch[r][Len(fetch[r])]

\* list_tools returns: steps 1 to 6 run up to the next await
ListToolsReturns(r) ==
    /\ pc[r] = "list_tools"
    /\ system_prompt' = [system_prompt EXCEPT ![r] =
            [query |-> query[r], tools |-> Catalog, listing |-> PromptListing(r)]]
    /\ \E oreply \in RepliesFor(r) :
        IF ~oreply.ok
        THEN /\ oracle' = [oracle EXCEPT ![r] = [state |-> "failed", text |-> <<>>]]
             /\ content' = content
             /\ Apply(r, OracleFailed, calls[r],
                      [ok |-> FALSE, text |-> <<>>])
        ELSE LET got == Interpreted[oreply.text] IN
             /\ oracle' = [oracle EXCEPT ![r] = [state |-> "ok", text |-> oreply.text]]
             /\ content' = [content EXCEPT ![r] = got.content]
             /\ \E preply \in PrettyChoices(got.out.ret) :
                    Apply(r, got.out, calls[r], preply)
    /\ UNCHANGED mainVars
    /\ UNCHANGED <<listed, query, fetch>>

\* call_tool returns or raises: its line is appended and the loop goes on
CallToolReturns(r) ==
    /\ pc[r] = "call_tool"
    /\ \E status \in HttpStatuses, how \in ChannelHow :
        LET item == content[r][idx[r]]
            tool_name == ItemName(item)
            reply == call_tool(tool_name, ItemInput(item), status, how)
            out == AfterCall(content[r], idx[r], final_text_chunks[r],
                             tool_name, reply)
            callsNow == [calls[r] EXCEPT ![Len(calls[r])] =
                            [item |-> idx[r],
                             state |-> IF reply.raised THEN "raised" ELSE "returned",
                             failed |-> reply.failed,
                             shown |-> reply.shown]]
        IN  \E preply \in PrettyChoices(out.ret) : Apply(r, out, callsNow, preply)
    /\ UNCHANGED mainVars
    /\ UNCHANGED <<listed, query, fetch, system_prompt, oracle, content>>

(***************************************************************************)
(* The front ends: chat_loop / main (client), handle_query / shutdown      *)
(* (host)                                                                  *)
(***************************************************************************)
\* a cycle is suspended in a channel operation
Active(r) == pc[r] \in {"list_tools", "call_tool"}

\* main(): chat_loop() runs once connect_to_server() has returned
ChatLoopRunning == program = "client" /\ mainPc = "running"

ServingBeforeStartup == program = "host" /\ mainPc # "exited"

\* the application serves /query once the on_startup hook has returned
Serving == program = "host" /\ mainPc = "running"

\* AsyncExitStack.aclose(): every context entered is exited
AClose(stack) == <<>>

IsQuitExact(q) == q = <<X("quit")>>

\* query.lower() == 'quit'
IsQuit(q) == Lower(q) = <<X("quit")>>

\* chat_loop: read a line, strip it; "quit" leaves the loop (main's finally
\* block follows), anything else is a cycle.  The loop reads the next line
\* when process_query has returned or its exception has been printed.
ReadInput ==
    /\ ChatLoopRunning
    /\ \A r \in Reqs : ~Active(r)
    /\ \E line \in InputLines :
        LET q == Strip(line) IN
        /\ typed' = line
        /\ IF IsQuit(q)
           THEN /\ mainPc' = "cleanup"
                /\ exitKind' = "ok"
                /\ UNCHANGED <<earlyOps, listed>>
                /\ UNCHANGED cycleVars
           ELSE /\ \E r \in Reqs :
                       /\ pc[r] = "idle"
                       /\ \A o \in Reqs : o < r => pc[o] # "idle"
                       /\ StartCycle(r, q)
                /\ UNCHANGED <<mainPc, exitKind>>
    /\ UNCHANGED <<program, session, exit_stack, initCount, initDone>>
    /\ UNCHANGED fixedVars

\* main(): finally: await client.cleanup()
Cleanup ==
    /\ program = "client"
    /\ mainPc = "cleanup"
    /\ exit_stack' = AClose(exit_stack)
    /\ mainPc' = "exited"
    /\ UNCHANGED <<program, exitKind, session, initCount, initDone, earlyOps,
                   listed, typed>>
    /\ UNCHANGED fixedVars
    /\ UNCHANGED cycleVars

\* handle_query: q is read from the request and process_query(q) is awaited
HandleQuery(r) ==
    /\ Serving
    /\ \A o \in Reqs : o < r => pc[o] # "idle"
    /\ \E q \in Queries : StartCycle(r, q)
    /\ UNCHANGED mainVars

\* the on_shutdown hook: mcp_client.shutdown(), once no request is being served
Shutdown ==
    /\ Serving
    /\ \A r \in Reqs : ~Active(r)
    /\ exit_stack' = AClose(exit_stack)
    /\ mainPc' = "exited"
    /\ exitKind' = "ok"
    /\ UNCHANGED <<program, session, initCount, initDone, earlyOps, listed,
                   typed>>
    /\ UNCHANGED fixedVars
    /\ UNCHANGED cycleVars

Next ==
    \/ EnterTransport
    \/ EnterSession
    \/ Initialize
    \/ ConnectListTools
    \/ ReadInput
    \/ Cleanup
    \/ Shutdown
    \/ \E r \in Reqs : HandleQuery(r)
    \/ \E r \in Reqs : ListToolsFails(r)
    \/ \E r \in Reqs : ListToolsReturns(r)
    \/ \E r \in Reqs : CallToolReturns(r)

Spec == Init /\ [][Next]_vars

(***************************************************************************)
(* connect_to_server called with any script path                           *)
(***************************************************************************)
\* "celestial_engine.py", "e.js", "epy", "e.pyc", ""
ScriptPaths ==
    { EngineScript, <<"e", ".", "j", "s">>, <<"e", "p", "y">>,
      <<"e", ".", "p", "y", "c">>, <<>> }

InitConnect ==
    /\ program \in {"client", "host"}
    /\ server_script_path \in ScriptPaths
    /\ args = NoArgs
    /\ Unconnected

SpecConnect == InitConnect /\ [][Next]_vars

(***************************************************************************)
(* The Tool Provider running one get_phenomena call                        *)
(***************************************************************************)
clientVars == <<program, server_script_path, mainPc, exitKind, session,
                exit_stack, initCount, initDone, earlyOps, listed, typed>>

InitEngine ==
    /\ program = "engine"
    /\ server_script_path = EngineScript
    /\ args \in PhenomenaInputs
    /\ Unconnected

\* get_phenomena(args) builds endpoint and params and awaits the request
GetPhenomena ==
    /\ program = "engine"
    /\ params.state = "none"
    /\ params' = get_phenomena(args)
    /\ UNCHANGED <<clientVars, cycleVars, args>>

\* celestial_request returns the JSON body or raises
RequestCompletes ==
    /\ program = "engine"
    /\ params.state = "sent"
    /\ \E status \in HttpStatuses :
        params' = [params EXCEPT !.state =
                      IF celestial_request(status).ok THEN "returned" ELSE "raised"]
    /\ UNCHANGED <<clientVars, cycleVars, args>>

NextEngine ==
    \/ GetPhenomena
    \/ RequestCompletes

SpecEngine == InitEngine /\ [][NextEngine]_vars

(***************************************************************************)
(* Properties                                                              *)
(***************************************************************************)
Done(r) == pc[r] = "done"
Answered(r) == oracle[r].state = "ok"
Raw(r) == oracle[r].text

IsWs(tok) == tok.t = "ws"

\* raw without its first a and last b characters
TrimAt(raw, a, b) == SubSeq(raw, a + 1, Len(raw) - b)

\* the first a and last b characters of raw are its leading and trailing
\* whitespace: all whitespace, and what is left neither starts nor ends
\* with whitespace
IsTrim(raw, a, b) ==
    /\ a + b <= Len(raw)
    /\ \A i \in 1..a : IsWs(raw[i])
    /\ \A i \in (Len(raw) - b + 1)..Len(raw) : IsWs(raw[i])
    /\ LET core == TrimAt(raw, a, b) IN
        core = <<>> \/ (~IsWs(core[1]) /\ ~IsWs(core[Len(core)]))

PrefixText == <<X("Model did not return valid JSON:"), W("NL")>>

\* per oracle text: is it valid JSON as it stands
ValidAsIs == [t \in OracleTexts |-> IsValidJson(t)]

\* per oracle text: its form without leading and trailing whitespace, when
\* that form is not valid JSON
FallbackCores ==
    [t \in OracleTexts |->
        {TrimAt(t, ab[1], ab[2]) : ab \in
            {p \in (0..Len(t)) \X (0..Len(t)) :
                IsTrim(t, p[1], p[2]) /\ ~IsValidJson(TrimAt(t, p[1], p[2]))}}]

\* C1 as stated: for every oracle response text r that is not valid JSON,
\* process_query returns the prefix followed by r verbatim, whitespace
\* included.
C1_FallbackVerbatim ==
    \A r \in Reqs :
        (Done(r) /\ Answered(r) /\ ~ValidAsIs[Raw(r)])
            => ret[r] = Value(PrefixText \o Raw(r))

\* C1 amended: for every oracle response text r whose form without leading
\* and trailing whitespace is not valid JSON, process_query returns the
\* prefix followed by r without its leading and trailing whitespace (the
\* interior unchanged), and raises nothing.
C1_FallbackStripped ==
    \A r \in Reqs :
        (Done(r) /\ Answered(r))
            => \A core \in FallbackCores[Raw(r)] :
                  ret[r] = Value(PrefixText \o core)

\* a cycle answered " not json\n" has returned the prefix and "not json"
C1_Witness ==
    \E r \in Reqs :
        /\ Done(r) /\ Answered(r)
        /\ Raw(r) = <<W("SP"), X("not"), W("SP"), X("json"), W("NL")>>
        /\ ret[r] = Value(PrefixText \o <<X("not"), W("SP"), X("json")>>)

\* the ModelResponseEnvelope shape: an object whose content, when present,
\* is a sequence of objects
EnvelopeShape(v) ==
    /\ v.tag = "obj"
    /\ LET c == DictGet(v.members, "content", PyList(<<>>)) IN
        /\ c.tag = "arr"
        /\ \A i \in 1..Len(c.items) : c.items[i].tag = "obj"

MatchesEnvelope(text) ==
    LET p == JsonLoads(text) IN p.ok /\ EnvelopeShape(p.val)

\* per oracle text: does it, stripped, match the shape, and its items
EnvelopeOf ==
    [t \in OracleTexts |->
        IF MatchesEnvelope(Strip(t))
        THEN [ok |-> TRUE,
              items |-> DictGet(JsonLoads(Strip(t)).val.members, "content",
                                PyList(<<>>)).items,
              fallbacks |-> {}]
        ELSE [ok |-> FALSE, items |-> <<>>,
              fallbacks |-> {PrefixText \o t, PrefixText \o Strip(t)}]]

\* C2: for every oracle response text that does not match the envelope
\* shape (not JSON, JSON that is no object, content that is no sequence, a
\* content element that is no object), process_query returns the fallback
\* answer and no exception escapes.
C2_MalformedNeverCrashes ==
    \A r \in Reqs :
        (Done(r) /\ Answered(r) /\ ~EnvelopeOf[Raw(r)].ok)
            => /\ ret[r].kind = "value"
               /\ ret[r].val \in EnvelopeOf[Raw(r)].fallbacks

\* the cycles whose response parsed into an envelope, and its items
WellFormed(r) == Answered(r) /\ EnvelopeOf[Raw(r)].ok
Items(r) == EnvelopeOf[Raw(r)].items

TypeIs(item, c) ==
    LET ty == DictGet(item.members, "type", PyNone) IN
    ty.tag = "str" /\ ty.cs = <<X(c)>>

NameText(item) == PyToStr(DictGet(item.members, "name", PyNone))

SuccessLine(item, shown) ==
    PyStr(<<X("[Tool '")>> \o NameText(item)
            \o <<X("' executed with result: ")>> \o shown \o <<X("]")>>)

FailureLine(item, shown) ==
    PyStr(<<X("[Error executing tool '")>> \o NameText(item)
            \o <<X("': ")>> \o shown \o <<X("]")>>)

\* entry i of the output sequence is the one item i gives
EntryFrom(r, i) ==
    LET item == Items(r)[i]
        entry == final_text_chunks[r][i]
    IN  IF TypeIs(item, "text")
        THEN entry = DictGet(item.members, "text", PyStr(<<>>))
        ELSE IF TypeIs(item, "tool_use")
        THEN \E k \in 1..Len(calls[r]) :
                /\ calls[r][k].item = i
                /\ \/ /\ calls[r][k].state = "returned"
                      /\ entry = SuccessLine(item, calls[r][k].shown)
                   \/ /\ calls[r][k].state = "raised"
                      /\ entry = FailureLine(item, calls[r][k].shown)
        ELSE entry.tag = "str" /\ Head(entry.cs) = X("Unrecognized item: ")

\* the calls issued so far are those of the tool_use items reached so far,
\* in content order, and only the last one can still be in flight
CallsInOrder(r) ==
    LET n == Len(final_text_chunks[r])
        reached == IF pc[r] = "call_tool" THEN n + 1 ELSE n
        toolItems == {i \in 1..reached : TypeIs(Items(r)[i], "tool_use")}
    IN  /\ {calls[r][k].item : k \in 1..Len(calls[r])} = toolItems
        /\ Len(calls[r]) = Cardinality(toolItems)
        /\ \A k, l \in 1..Len(calls[r]) :
              k < l => /\ calls[r][k].item < calls[r][l].item
                       /\ calls[r][k].state # "pending"
        /\ \A k \in 1..Len(calls[r]) :
              calls[r][k].state = "pending"
                  <=> (pc[r] = "call_tool" /\ calls[r][k].item = idx[r])

\* C3: for a successfully parsed response with n content items the output
\* sequence ends with exactly n entries, entry i comes from item i, and
\* the tool calls are issued one at a time in content order, each call
\* finished before the next item is processed; a successful call leaves
\* "[Tool '<name>' executed with result: <result>]" at its position.
C3_OrderPreserved ==
    \A r \in Reqs :
        WellFormed(r) =>
            /\ content[r] = Items(r)
            /\ Len(final_text_chunks[r]) <= Len(Items(r))
            /\ Done(r) => Len(final_text_chunks[r]) = Len(Items(r))
            /\ pc[r] = "call_tool" =>
                  /\ Len(final_text_chunks[r]) = idx[r] - 1
                  /\ TypeIs(Items(r)[idx[r]], "tool_use")
            /\ \A i \in 1..Len(final_text_chunks[r]) : EntryFrom(r, i)
            /\ CallsInOrder(r)

\* a cycle over [text, tool_use] has ended with the text first and the
\* success line of the call second
C3_Witness ==
    \E r \in Reqs :
        /\ Done(r) /\ WellFormed(r)
        /\ Len(Items(r)) = 2
        /\ Len(calls[r]) = 1
        /\ calls[r][1].state = "returned" /\ ~calls[r][1].failed
        /\ final_text_chunks[r][1] = PyStr(<<X("A")>>)
        /\ final_text_chunks[r][2] = SuccessLine(Items(r)[2], calls[r][1].shown)
        /\ ret[r].kind = "value"

\* a well-formed envelope whose text items carry a str
TextsAreStr(r) ==
    \A i \in 1..Len(Items(r)) :
        TypeIs(Items(r)[i], "text")
            => DictGet(Items(r)[i].members, "text", PyStr(<<>>)).tag = "str"

C5_FailureIsErrorLine ==
    \A r \in Reqs :
        WellFormed(r) =>
            \A k \in 1..Len(calls[r]) :
                (calls[r][k].failed /\ calls[r][k].state # "pending") =>
                    LET entry == final_text_chunks[r][calls[r][k].item] IN
                    /\ Head(entry.cs) = X("[Error executing tool '")
                    /\ Head(entry.cs) # X("[Tool '")

\* C6: when the oracle call of the negotiation stage fails, the failure
\* leaves process_query, no answer string is produced, and no call_tool is
\* issued in that cycle.
C6_OracleFailureIsFatal ==
    \A r \in Reqs :
        oracle[r].state = "failed" =>
            /\ Done(r)
            /\ ret[r].kind = "exc"
            /\ calls[r] = <<>>
            /\ final_text_chunks[r] = <<>>
            /\ resp[r].kind # "ok"

\* a cycle whose list_tools returned and whose oracle call failed
C6_Witness ==
    \E r \in Reqs :
        /\ oracle[r].state = "failed"
        /\ system_prompt[r].tools = Catalog
        /\ Done(r)

\* C7: in the HTTP handler, a Presentation Pass failure after a successful
\* negotiation cycle reaches the caller; no {result: ...} response carries
\* the unformatted answer.
C7_PrettifyFailurePropagates ==
    \A r \in Reqs :
        pretty[r].state = "failed" =>
            /\ ret[r].kind = "value"
            /\ resp[r].kind = "error"
            /\ resp[r] # [kind |-> "ok", result |-> ret[r].val]

\* a request whose cycle returned an answer and whose second oracle call
\* failed
C7_Witness ==
    \E r \in Reqs :
        /\ program = "host"
        /\ Done(r) /\ ret[r].kind = "value"
        /\ pretty[r].state = "failed"

\* C8: the channel is initialized exactly once and before any other
\* channel operation: no list_tools or call_tool is issued before
\* initialize has completed, no cycle runs against an unconnected session,
\* and initialize is never issued twice.
C8_InitializedOnceFirst ==
    /\ initCount <= 1
    /\ earlyOps = 0
    /\ mainPc = "running" => (initDone /\ initCount = 1)
    /\ \A r \in Reqs :
          pc[r] # "idle" => (session = "set" /\ initDone /\ initCount = 1)

\* a cycle that has issued list_tools and a call_tool on the session
C8_Witness ==
    \E r \in Reqs :
        /\ Done(r)
        /\ Len(calls[r]) >= 1
        /\ initCount = 1

\* C9: whenever the transport or the session was acquired, the exit stack
\* has been closed when the process ends, on every exit path.
C9_ReleasedOnEveryExit ==
    mainPc = "exited" => exit_stack = <<>>

\* C10: in the host, no two requests have a list_tools or call_tool in
\* flight on the shared session at the same time.
C10_ChannelSerialized ==
    Cardinality({r \in Reqs : Active(r)}) <= 1

\* the list_tools operations a cycle has issued
Fetched(r) == {fetch[r][k] : k \in 1..Len(fetch[r])}

\* C11: every negotiation cycle issues list_tools exactly once, the oracle
\* is called only after that operation has returned, and the catalog in the
\* cycle's system prompt is the response of that operation: not the one
\* listed at connect time (operation 1) nor one fetched by another cycle.
C11_CatalogFetchedPerCycle ==
    \A r \in Reqs :
        /\ pc[r] # "idle" => Len(fetch[r]) = 1
        /\ pc[r] = "list_tools" =>
              (oracle[r].state = "none" /\ system_prompt[r].listing = 0)
        /\ oracle[r].state # "none" =>
              /\ pc[r] \in {"call_tool", "done"}
              /\ system_prompt[r].tools = Catalog
              /\ system_prompt[r].query = query[r]
              /\ system_prompt[r].listing \in Fetched(r)
              /\ system_prompt[r].listing > 1
              /\ \A o \in Reqs \ {r} : system_prompt[r].listing \notin Fetched(o)

\* two cycles have called the oracle, each with the catalog of its own fetch
C11_Witness ==
    \E r, o \in Reqs :
        /\ r # o
        /\ oracle[r].state = "ok" /\ oracle[o].state = "ok"
        /\ system_prompt[r].listing = 2
        /\ system_prompt[o].listing = 3
        /\ fetch[r] = <<2>> /\ fetch[o] = <<3>>

\* C12 as stated: the result field of the HTTP response equals the text of
\* the second oracle call character for character.
C12_ResultIsRawText ==
    \A r \in Reqs :
        resp[r].kind = "ok" => resp[r].result = pretty[r].text

\* C12 amended: the result field of the HTTP response is the text of the
\* second oracle call without its leading and trailing whitespace, the
\* interior unchanged and not parsed.
C12_ResultIsTrimmedText ==
    \A r \in Reqs :
        resp[r].kind = "ok" =>
            /\ pretty[r].state = "ok"
            /\ \E a, b \in 0..Len(pretty[r].text) :
                  /\ IsTrim(pretty[r].text, a, b)
                  /\ resp[r].result = TrimAt(pretty[r].text, a, b)

\* the second oracle call answered " table\n" and the response carries
\* "table"
C12_Witness ==
    \E r \in Reqs :
        /\ resp[r].kind = "ok"
        /\ pretty[r].text = <<W("SP"), X("table"), W("NL")>>
        /\ resp[r].result = <<X("table")>>

ParamKeys == {params.members[i].k : i \in 1..Len(params.members)}
ParamOf(k) == DictGet(params.members, k, PyNone)

\* C13: for every get_phenomena input the outgoing parameters hold
\* latitude, longitude, startDate and endDate always, each of timezone,
\* useBst, depression and altitude exactly when it was supplied, nothing
\* else, and useBst as the string "true" or "false", never as a boolean.
C13_PhenomenaParams ==
    params.state # "none" =>
        /\ Len(params.members) = Cardinality(ParamKeys)
        /\ ParamKeys \subseteq RequiredFields \cup OptionalFields
        /\ \A k \in RequiredFields : k \in ParamKeys /\ ParamOf(k) = args[k]
        /\ \A k \in OptionalFields : k \in ParamKeys <=> args[k] # PyNone
        /\ \A k \in (OptionalFields \ {"useBst"}) \cap ParamKeys :
              ParamOf(k) = args[k]
        /\ "useBst" \in ParamKeys =>
              /\ ParamOf("useBst").tag = "str"
              /\ args.useBst = PyBool("true")
                    => ParamOf("useBst") = PyStr(<<X("true")>>)
              /\ args.useBst = PyBool("false")
                    => ParamOf("useBst") = PyStr(<<X("false")>>)

\* a call with useBst = False, depression = 0 and no timezone has sent
\* useBst "false" and depression 0 and no timezone
C13_Witness ==
    /\ params.state = "sent"
    /\ args.useBst = PyBool("false")
    /\ args.depression = PyNum("0")
    /\ args.timezone = PyNone
    /\ ParamOf("useBst") = PyStr(<<X("false")>>)
    /\ "depression" \in ParamKeys
    /\ "timezone" \notin ParamKeys

\* the call cycle r issued for its item i
CallFor(r, i) ==
    CHOOSE c \in {calls[r][k] : k \in 1..Len(calls[r])} : c.item = i

\* the branch an item belongs to by its type
KindOf(item) ==
    IF TypeIs(item, "text") THEN "text"
    ELSE IF TypeIs(item, "tool_use") THEN "tool_use"
    ELSE "other"

\* per oracle text: the kinds of its items
ItemKinds ==
    [t \in OracleTexts |->
        [i \in 1..Len(EnvelopeOf[t].items) |-> KindOf(EnvelopeOf[t].items[i])]]

\* per oracle text: the entry of each item that is no tool_use
PlainEntries ==
    [t \in OracleTexts |->
        [i \in 1..Len(EnvelopeOf[t].items) |->
            LET item == EnvelopeOf[t].items[i] IN
            CASE ItemKinds[t][i] = "text" ->
                    IF HasKey(item.members, "text")
                    THEN DictGet(item.members, "text", PyNone)
                    ELSE PyStr(<<>>)
              [] ItemKinds[t][i] = "other" ->
                    PyStr(<<X("Unrecognized item: ")>> \o PyRepr(item))
              [] OTHER -> PyNone]]

\* the entry that item i of cycle r and the outcome of its own call give
OwnEntry(r, i) ==
    IF ItemKinds[Raw(r)][i] = "tool_use"
    THEN IF CallFor(r, i).state = "raised"
         THEN FailureLine(Items(r)[i], CallFor(r, i).shown)
         ELSE SuccessLine(Items(r)[i], CallFor(r, i).shown)
    ELSE PlainEntries[Raw(r)][i]

OwnEntries(r) == [i \in 1..Len(Items(r)) |-> OwnEntry(r, i)]

\* C14: cycles are isolated.  The prompt of a cycle carries its own query;
\* the output sequence of a finished cycle is exactly the entries of its own
\* content items and its own tool results, and its answer is their join,
\* whatever other cycles ran before it or are interleaved with it; two
\* cycles with the same oracle response and the same tool results return
\* the same answer, whatever their queries and their order.
C14_CyclesIsolated ==
    \A r \in Reqs :
        /\ oracle[r].state # "none" => system_prompt[r].query = query[r]
        /\ (Done(r) /\ WellFormed(r)) =>
              LET own == OwnEntries(r) IN
              /\ final_text_chunks[r] = own
              /\ AllStr(own) => ret[r] = Value(JoinNewline(own))
        /\ \A o \in Reqs :
              (Done(r) /\ Done(o) /\ oracle[r] = oracle[o] /\ calls[r] = calls[o])
                  => (ret[r] = ret[o] /\ final_text_chunks[r] = final_text_chunks[o])

\* in the host, request 2 with another query has run its tool call and
\* returned while request 1 is still suspended in its own tool call
C14_Witness ==
    /\ program = "host"
    /\ query[1] # query[2]
    /\ pc[1] = "call_tool" /\ Len(final_text_chunks[1]) >= 1
    /\ Done(2) /\ ret[2].kind = "value"
    /\ Len(calls[2]) = 1 /\ Len(final_text_chunks[2]) = 2

\* per oracle text: the positions of its tool_use items
ToolUseItems ==
    [t \in OracleTexts |->
        {i \in 1..Len(EnvelopeOf[t].items) : ItemKinds[t][i] = "tool_use"}]

\* per oracle text: how many tool_use items it has
ToolUseCount == [t \in OracleTexts |-> Cardinality(ToolUseItems[t])]

\* C15: tool calls are never retried.  In a cycle whose response parsed,
\* no item is called twice, the calls issued never outnumber the tool_use
\* items, and when the cycle has ended there is exactly one call per
\* tool_use item, succeeded or failed; a cycle that took the invalid-JSON
\* fallback has issued none.
C15_OneCallPerToolUse ==
    \A r \in Reqs :
        /\ WellFormed(r) =>
              /\ \A k, l \in 1..Len(calls[r]) :
                    calls[r][k].item = calls[r][l].item => k = l
              /\ Len(calls[r]) <= ToolUseCount[Raw(r)]
              /\ Done(r) => Len(calls[r]) = ToolUseCount[Raw(r)]
        /\ (Answered(r) /\ FallbackCores[Raw(r)] # {}) =>
              (Done(r) /\ calls[r] = <<>>)

\* a cycle over [tool_use foo, text] has ended with the one call of the
\* unknown tool raised and not repeated
C15_Witness ==
    \E r \in Reqs :
        /\ Done(r) /\ WellFormed(r)
        /\ Len(Items(r)) = 2
        /\ ToolUseItems[Raw(r)] = {1}
        /\ Len(calls[r]) = 1
        /\ calls[r][1].state = "raised"

\* per oracle text: it is a JSON object that has no "content" key
NoContentObject ==
    [t \in OracleTexts |->
        LET p == JsonLoads(t) IN
        p.ok /\ p.val.tag = "obj" /\ ~HasKey(p.val.members, "content")]

\* C16: when the oracle response is a valid JSON object without a content
\* key, the cycle iterates nothing: process_query returns the empty
\* string, issues no call_tool, raises nothing and does not return the
\* "Model did not return valid JSON" fallback.
C16_AbsentContentIsEmpty ==
    \A r \in Reqs :
        (Answered(r) /\ NoContentObject[Raw(r)]) =>
            /\ Done(r)
            /\ ret[r] = Value(<<>>)
            /\ ret[r].kind # "exc"
            /\ ret[r] # Value(PrefixText \o Raw(r))
            /\ calls[r] = <<>>
            /\ content[r] = <<>>
            /\ final_text_chunks[r] = <<>>

\* a cycle answered {"role": "assistant"} has returned the empty string
C16_Witness ==
    \E r \in Reqs :
        /\ Answered(r)
        /\ Raw(r) = ObjT(<<KV("role", <<S("assistant")>>)>>)
        /\ ret[r] = Value(<<>>)
        /\ calls[r] = <<>>

\* the calls cycle r has issued for its item i
CallsOf(r, i) == {k \in 1..Len(calls[r]) : calls[r][k].item = i}

\* item i of cycle r went through exactly one branch, the one of its type
OneBranch(r, i) ==
    LET item == Items(r)[i]
        entry == final_text_chunks[r][i]
    IN  IF ItemKinds[Raw(r)][i] = "tool_use"
        THEN /\ Cardinality(CallsOf(r, i)) = 1
             /\ \E k \in CallsOf(r, i) :
                   entry \in {SuccessLine(item, calls[r][k].shown),
                              FailureLine(item, calls[r][k].shown)}
        ELSE /\ CallsOf(r, i) = {}
             /\ entry = PlainEntries[Raw(r)][i]

\* C17: each content item is handled by exactly one of three branches,
\* chosen by its type: "text" appends the item's text (the empty string
\* when it has none) and calls nothing, "tool_use" issues one call_tool and
\* appends its line, and an item with no type or any other type appends
\* "Unrecognized item: <item>" and calls nothing.
C17_ThreeBranches ==
    \A r \in Reqs :
        WellFormed(r) =>
            /\ \A i \in 1..Len(final_text_chunks[r]) : OneBranch(r, i)
            /\ \A k \in 1..Len(calls[r]) :
                  ItemKinds[Raw(r)][calls[r][k].item] = "tool_use"
            /\ Done(r) => Len(final_text_chunks[r]) = Len(Items(r))

\* a cycle over [{type: image}, {text: x}, {type: text}] has ended with two
\* "Unrecognized item" lines, the empty string and no call
C17_Witness ==
    \E r \in Reqs :
        /\ Done(r) /\ WellFormed(r)
        /\ Len(Items(r)) = 3
        /\ ~HasKey(Items(r)[2].members, "type")
        /\ final_text_chunks[r][1]
              = PyStr(<<X("Unrecognized item: "), P("{"), Q("type"), P(":"),
                        W("SP"), Q("image"), P("}")>>)
        /\ final_text_chunks[r][2]
              = PyStr(<<X("Unrecognized item: "), P("{"), Q("text"), P(":"),
                        W("SP"), Q("x"), P("}")>>)
        /\ final_text_chunks[r][3] = PyStr(<<>>)
        /\ calls[r] = <<>>

QuitWords == {<<X("quit")>>, <<X("Quit")>>, <<X("QUIT")>>}

\* the line, without its leading and trailing whitespace, is "quit" in
\* some letter case
SaysQuit(line) ==
    \E a, b \in 0..Len(line) :
        IsTrim(line, a, b) /\ TrimAt(line, a, b) \in QuitWords

Connected == <<"transport", "session">>

\* C18: in the interactive loop a cycle that fails as a whole is printed as
\* "Error processing query: <e>" and the loop goes on: while the loop runs
\* the channel stays open, and after a cycle has run the loop is left only
\* by a line that, trimmed, is "quit" in any letter case.  No cycle is run
\* for that line, and cleanup then closes the channel.
C18_LoopSurvivesFailures ==
    program = "client" =>
        /\ \A r \in Reqs :
              /\ (Done(r) /\ ret[r].kind = "exc") =>
                    printed[r] = [kind |-> "error",
                                  text |-> <<W("NL"), X("Error processing query: ")>>
                                              \o ret[r].val]
              /\ (Done(r) /\ ret[r].kind = "value") => printed[r].kind = "answer"
              /\ query[r] \notin QuitWords
        /\ mainPc = "running" =>
              (exit_stack = Connected /\ session = "set" /\ ~SaysQuit(typed))
        /\ ((\E r \in Reqs : pc[r] # "idle") /\ mainPc # "running") =>
              exitKind = "ok"
        /\ exitKind = "ok" <=> SaysQuit(typed)
        /\ exitKind = "ok" =>
              \/ mainPc = "cleanup" /\ exit_stack = Connected
              \/ mainPc = "exited" /\ exit_stack = <<>>

\* the first cycle failed as a whole, a second query was read and answered
\* after it, then " Quit\n" ended the loop and cleanup closed the channel
C18_Witness ==
    /\ program = "client"
    /\ Done(1) /\ ret[1].kind = "exc" /\ printed[1].kind = "error"
    /\ Done(2) /\ ret[2].kind = "value"
    /\ typed = <<W("SP"), X("Quit"), W("NL")>>
    /\ mainPc = "exited"
    /\ exit_stack = <<>>

\* C19: the messages of the second oracle call are built from the original
\* query as well as from the FinalAnswer: two requests with different
\* queries and equal FinalAnswer strings have different presentation
\* prompts.
C19_PromptDependsOnQuery ==
    \A r, o \in Reqs :
        ( /\ pretty[r].state # "none" /\ pretty[o].state # "none"
          /\ query[r] # query[o]
          /\ ret[r] = ret[o] )
            => pretty[r].prompt # pretty[o].prompt

\* per script path: its last three characters are ".py"
HasPySuffix ==
    [p \in ScriptPaths |->
        /\ Len(p) >= 3
        /\ p[Len(p) - 2] = "." /\ p[Len(p) - 1] = "p" /\ p[Len(p)] = "y"]

\* C20: connect_to_server with a script path that does not end in ".py"
\* fails before anything is acquired: no provider is spawned, the exit
\* stack stays empty, the session stays unset, no initialize and no
\* list_tools is issued, and no cycle ever runs.
C20_BadScriptAcquiresNothing ==
    ~HasPySuffix[server_script_path] =>
        /\ exit_stack = <<>>
        /\ session = "None"
        /\ initCount = 0 /\ ~initDone
        /\ listed = 0 /\ earlyOps = 0
        /\ mainPc \in {"start", "cleanup", "exited"}
        /\ mainPc # "start" => exitKind = "error"
        /\ \A r \in Reqs : pc[r] = "idle"

\* connect_to_server("e.js") has raised and the program has ended
C20_Witness ==
    /\ server_script_path = <<"e", ".", "j", "s">>
    /\ mainPc = "exited"
    /\ exitKind = "error"
    /\ exit_stack = <<>> /\ session = "None"

====
